---- MODULE Spec2Model ----
(***************************************************************************)
(* Model of source/kernel/io_trace.c of standalone-linux-io-tracer:        *)
(* the client life cycle (iotrace_attach_client, iotrace_detach_client),   *)
(* the per-CPU tracers (init_tracers, deinit_tracers), buffer sizing       *)
(* (iotrace_init_buffers, iotrace_set_buffer_size,                         *)
(* iotrace_get_buffer_size) and the two event producers                    *)
(* (bio_queue_event / iotrace_trace_bio and iotrace_trace_desc).           *)
(*                                                                         *)
(* Every C function is a sequence of steps of the calling context; a step  *)
(* is one action, and the position of a context inside a function is its   *)
(* program counter.  Statements that only touch state protected by         *)
(* client_mutex, or locals, are merged with the preceding step.            *)
(***************************************************************************)
EXTENDS Integers, Sequences, FiniteSets, TLC

(***************************************************************************)
(* Bounds of the model.                                                    *)
(***************************************************************************)
\* online CPUs (the sizing specification tries 1..MaxSizerCpus)
NumCpus == 2
\* contexts calling attach / detach / init_buffers concurrently, in the
\* life-cycle specification and next to the event producers
NumCallers == 2
NumTracers == 1
\* attaches one caller may hold at a time (open handles per consumer)
MaxHeld == 1
\* contexts calling iotrace_trace_desc concurrently
NumDesc == 1
\* sequence ids drawn in one run
MaxSid == 2
\* events one per-CPU ring holds before a push is rejected
RingCap == 1
\* sizeof(desc.device_name), the capacity of the name field (set outside this file)
DevNameSize == 2
\* online CPUs tried by the sizing specification
MaxSizerCpus == 8
\* largest request (MiB) tried by the sizing specification
MaxSizerMb == 130
\* module parameter iotrace_procfs_max_buffer_size_mb (set outside this file)
iotrace_procfs_max_buffer_size_mb == 128

(***************************************************************************)
(* Program constants.                                                      *)
(***************************************************************************)
\* 1024ULL of iotrace_set_buffer_size / iotrace_get_buffer_size
Kilo == 1024

\* status codes: 0 and the errno values the file returns itself, and one
\* symbolic non-zero status per external call whose value is opaque here
OK == "0"
EINVAL == "-EINVAL"
ENOMEM == "-ENOMEM"
ENOSPC == "-ENOSPC"
OPEN_ERR == "octf_trace_open error"
REG_ERR == "register_trace_block_bio_queue error"
ALLOC_ERR == "iotrace_procfs_trace_file_alloc error"
PUSH_FULL == "octf_trace_push: no space"

VARIABLES
    ncpus,      \* num_online_cpus(); the online CPUs are 1..ncpus
    clients,    \* state->clients
    mutex,      \* state->client_mutex: 0 when free, else the holder
    traces,     \* state->traces: "null", "alloc" (live per-CPU table), "freed"
    open,       \* open[c]: the handle in slot c of the table is an open trace
    hook,       \* bio_queue_event is registered on the block_bio_queue tracepoint
    size,       \* iotrace->size, bytes per CPU
    ring,       \* ring[c]: file->trace_ring_size of CPU c, 0 when trace_ring is NULL
    bdev,       \* the traced-device list is non-empty
    pc,         \* pc[p]: position of caller p
    result,     \* result[p]: the local `result` of the call in progress
    idx,        \* idx[p]: the loop variable i of for_each_online_cpu
    arg,        \* arg[p]: the size argument of iotrace_init_buffers
    held,       \* held[p]: successful attaches of p not yet detached
    clients0,   \* clients0[p]: state->clients when p took the mutex
    sid,        \* state->sid, the atomic sequence counter
    buf,        \* buf[c]: the events held by the ring of CPU c, oldest first
    woken,      \* woken[c]: the poll queue of CPU c was woken and not yet polled
    bpc,        \* bpc[c]: position of the tracepoint callback running on CPU c
    bsid,       \* bsid[c]: the local `sid` of that callback
    bbio,       \* bbio[c]: bi_rw of the bio it was called with, as the set of bits set
    dpc,        \* dpc[d]: position of iotrace_trace_desc caller d
    dcpu,       \* dcpu[d]: its argument cpu
    dname,      \* dname[d]: strlen of its argument dev_name
    dtrace,     \* dtrace[d]: its local `trace`, the handle read on entry
    dsid,       \* dsid[d]: its local `sid`
    dres        \* dres[d]: its local `result`

callVars == <<pc, result, idx, arg, held, clients0>>
emitVars == <<sid, buf, woken, bpc, bsid, bbio, dpc, dcpu, dname, dtrace, dsid, dres>>

vars == <<ncpus, clients, mutex, traces, open, hook, size, ring, bdev,
          pc, result, idx, arg, held, clients0,
          sid, buf, woken, bpc, bsid, bbio, dpc, dcpu, dname, dtrace, dsid, dres>>

Cpus == 1..ncpus
Callers == DOMAIN pc
DescCallers == DOMAIN dpc

lifeVars == <<clients, mutex, traces, open, hook, size, ring, bdev>>

(***************************************************************************)
(* Buffer sizing: pure functions.                                          *)
(***************************************************************************)
\* mutant: the share rounded up instead of down
per_cpu_size_mut(size_mb, cpus) == (size_mb * Kilo * Kilo + cpus - 1) \div cpus

\* the per-CPU share computed at the top of iotrace_set_buffer_size
per_cpu_size(size_mb, cpus) == (size_mb * Kilo * Kilo) \div cpus

\* mutant: the ceiling is not checked
iotrace_set_buffer_size_mut(old, size_mb, cpus) ==
    IF per_cpu_size(size_mb, cpus) = 0
    THEN [status |-> EINVAL, size |-> old]
    ELSE [status |-> OK, size |-> per_cpu_size(size_mb, cpus)]

\* iotrace_set_buffer_size: status and the value stored in iotrace->size
iotrace_set_buffer_size(old, size_mb, cpus) ==
    IF size_mb > iotrace_procfs_max_buffer_size_mb \/ per_cpu_size(size_mb, cpus) = 0
    THEN [status |-> EINVAL, size |-> old]
    ELSE [status |-> OK, size |-> per_cpu_size(size_mb, cpus)]

\* iotrace_get_buffer_size: total size in MiB
iotrace_get_buffer_size == ((size * ncpus) \div Kilo) \div Kilo

(***************************************************************************)
(* Helpers shared by the steps.                                            *)
(***************************************************************************)
\* a caller moves to `to`, the other callers stay
Goto(p, to) == pc' = [pc EXCEPT ![p] = to]

\* mutant: every attach activates and registers
attach_is_first_mut(c) == TRUE

\* `if (!state->clients)` of iotrace_attach_client
attach_is_first(c) == c = 0

\* mutant: every detach deactivates (a flag instead of a count)
detach_not_last_mut(c) == FALSE

\* `if (state->clients)` of iotrace_detach_client, after the decrement
detach_not_last(c) == c # 0

\* mutant: the client count is not checked
init_buffers_busy_mut(c) == FALSE

\* `if (state->clients)` of iotrace_init_buffers
init_buffers_busy(c) == c # 0

\* mutant: the loop forgets to close the handle
close_step_mut(p, next) ==
    /\ UNCHANGED open
    /\ IF idx[p] = ncpus
       THEN /\ idx' = [idx EXCEPT ![p] = 0]
            /\ Goto(p, next)
       ELSE /\ idx' = [idx EXCEPT ![p] = idx[p] + 1]
            /\ UNCHANGED pc

\* one iteration of `for_each_online_cpu(i) octf_trace_close(...)`
close_step(p, next) ==
    /\ open' = [open EXCEPT ![idx[p]] = FALSE]
    /\ IF idx[p] = ncpus
       THEN /\ idx' = [idx EXCEPT ![p] = 0]
            /\ Goto(p, next)
       ELSE /\ idx' = [idx EXCEPT ![p] = idx[p] + 1]
            /\ UNCHANGED pc

(***************************************************************************)
(* iotrace_attach_client                                                   *)
(***************************************************************************)
attach_call(p) ==
    /\ pc[p] = "idle"
    /\ held[p] < MaxHeld
    /\ Goto(p, "att_lock")
    /\ result' = [result EXCEPT ![p] = OK]
    /\ UNCHANGED <<emitVars, ncpus, lifeVars, idx, arg, held, clients0>>

\* mutex_lock and the test of state->clients
attach_lock(p) ==
    /\ pc[p] = "att_lock"
    /\ mutex = 0
    /\ mutex' = p
    /\ clients0' = [clients0 EXCEPT ![p] = clients]
    /\ Goto(p, IF attach_is_first(clients) THEN "att_alloc" ELSE "att_inc")
    /\ UNCHANGED <<emitVars, ncpus, clients, traces, open, hook, size, ring, bdev,
                   result, idx, arg, held>>

\* init_tracers: state->traces = alloc_percpu(...), which may fail
init_tracers_alloc(p) ==
    /\ pc[p] = "att_alloc"
    /\ \/ /\ traces' = "alloc"
          /\ open' = [c \in Cpus |-> FALSE]
          /\ idx' = [idx EXCEPT ![p] = 1]
          /\ Goto(p, "att_open")
          /\ UNCHANGED result
       \/ /\ traces' = "null"
          /\ result' = [result EXCEPT ![p] = ENOMEM]
          /\ Goto(p, "att_exit")
          /\ UNCHANGED <<open, idx>>
    /\ UNCHANGED <<emitVars, ncpus, clients, mutex, hook, size, ring, bdev, arg, held,
                   clients0>>

\* mutant: the open loop does not test file->trace_ring
init_tracers_open_mut(p) ==
    /\ pc[p] = "att_open"
    /\ \/ /\ open' = [open EXCEPT ![idx[p]] = TRUE]
          /\ result' = [result EXCEPT ![p] = OK]
          /\ IF idx[p] = ncpus
             THEN /\ idx' = [idx EXCEPT ![p] = 0]
                  /\ Goto(p, "att_reg")
             ELSE /\ idx' = [idx EXCEPT ![p] = idx[p] + 1]
                  /\ UNCHANGED pc
       \/ /\ result' = [result EXCEPT ![p] = OPEN_ERR]
          /\ idx' = [idx EXCEPT ![p] = 1]
          /\ Goto(p, "att_undo")
          /\ UNCHANGED open
    /\ UNCHANGED <<emitVars, ncpus, clients, mutex, traces, hook, size, ring, bdev, arg,
                   held, clients0>>

\* init_tracers: one iteration of the open loop
init_tracers_open(p) ==
    /\ pc[p] = "att_open"
    /\ IF ring[idx[p]] = 0
       THEN /\ result' = [result EXCEPT ![p] = EINVAL]
            /\ idx' = [idx EXCEPT ![p] = 1]
            /\ Goto(p, "att_undo")
            /\ UNCHANGED open
       ELSE \/ /\ open' = [open EXCEPT ![idx[p]] = TRUE]
               /\ result' = [result EXCEPT ![p] = OK]
               /\ IF idx[p] = ncpus
                  THEN /\ idx' = [idx EXCEPT ![p] = 0]
                       /\ Goto(p, "att_reg")
                  ELSE /\ idx' = [idx EXCEPT ![p] = idx[p] + 1]
                       /\ UNCHANGED pc
            \/ /\ result' = [result EXCEPT ![p] = OPEN_ERR]
               /\ idx' = [idx EXCEPT ![p] = 1]
               /\ Goto(p, "att_undo")
               /\ UNCHANGED open
    /\ UNCHANGED <<emitVars, ncpus, clients, mutex, traces, hook, size, ring, bdev, arg,
                   held, clients0>>

\* init_tracers: the `if (result)` roll back, closing every online CPU
init_tracers_undo(p) ==
    /\ pc[p] = "att_undo"
    /\ close_step(p, "att_undo_free")
    /\ UNCHANGED <<emitVars, ncpus, clients, mutex, traces, hook, size, ring, bdev,
                   result, arg, held, clients0>>

\* init_tracers: free_percpu of the roll back, then `goto exit` in the caller
init_tracers_undo_free(p) ==
    /\ pc[p] = "att_undo_free"
    /\ traces' = "freed"
    /\ Goto(p, "att_exit")
    /\ UNCHANGED <<emitVars, ncpus, clients, mutex, open, hook, size, ring, bdev,
                   result, idx, arg, held, clients0>>

\* mutant: a failed registration returns without deinit_tracers
attach_register_mut(p) ==
    /\ pc[p] = "att_reg"
    /\ \/ /\ hook' = TRUE
          /\ Goto(p, "att_inc")
          /\ UNCHANGED <<result, idx>>
       \/ /\ result' = [result EXCEPT ![p] = REG_ERR]
          /\ Goto(p, "att_exit")
          /\ UNCHANGED <<hook, idx>>
    /\ UNCHANGED <<emitVars, ncpus, clients, mutex, traces, open, size, ring, bdev, arg,
                   held, clients0>>

\* register_trace_block_bio_queue, which may fail
attach_register(p) ==
    /\ pc[p] = "att_reg"
    /\ \/ /\ hook' = TRUE
          /\ Goto(p, "att_inc")
          /\ UNCHANGED <<result, idx>>
       \/ /\ result' = [result EXCEPT ![p] = REG_ERR]
          /\ idx' = [idx EXCEPT ![p] = 1]
          /\ Goto(p, "att_deinit")
          /\ UNCHANGED hook
    /\ UNCHANGED <<emitVars, ncpus, clients, mutex, traces, open, size, ring, bdev, arg,
                   held, clients0>>

\* deinit_tracers after a failed registration: the close loop
attach_deinit(p) ==
    /\ pc[p] = "att_deinit"
    /\ close_step(p, "att_deinit_free")
    /\ UNCHANGED <<emitVars, ncpus, clients, mutex, traces, hook, size, ring, bdev,
                   result, arg, held, clients0>>

\* deinit_tracers after a failed registration: free_percpu
attach_deinit_free(p) ==
    /\ pc[p] = "att_deinit_free"
    /\ traces' = "freed"
    /\ Goto(p, "att_exit")
    /\ UNCHANGED <<emitVars, ncpus, clients, mutex, open, hook, size, ring, bdev,
                   result, idx, arg, held, clients0>>

\* ++state->clients
attach_inc(p) ==
    /\ pc[p] = "att_inc"
    /\ clients' = clients + 1
    /\ Goto(p, "att_exit")
    /\ UNCHANGED <<emitVars, ncpus, mutex, traces, open, hook, size, ring, bdev,
                   result, idx, arg, held, clients0>>

\* exit: mutex_unlock and return result
attach_exit(p) ==
    /\ pc[p] = "att_exit"
    /\ mutex' = 0
    /\ held' = [held EXCEPT ![p] = IF result[p] = OK THEN held[p] + 1 ELSE held[p]]
    /\ result' = [result EXCEPT ![p] = OK]
    /\ clients0' = [clients0 EXCEPT ![p] = 0]
    /\ Goto(p, "idle")
    /\ UNCHANGED <<emitVars, ncpus, clients, traces, open, hook, size, ring, bdev, idx,
                   arg>>

(***************************************************************************)
(* iotrace_detach_client                                                   *)
(***************************************************************************)
\* a consumer releases one of the attaches it holds
detach_call(p) ==
    /\ pc[p] = "idle"
    /\ held[p] > 0
    /\ held' = [held EXCEPT ![p] = held[p] - 1]
    /\ Goto(p, "det_lock")
    /\ UNCHANGED <<emitVars, ncpus, lifeVars, result, idx, arg, clients0>>

\* mutant: the early return for a client that is not the last skips the exit
\* label
detach_lock_mut(p) ==
    /\ pc[p] = "det_lock"
    /\ mutex = 0
    /\ mutex' = p
    /\ clients' = clients - 1
    /\ Goto(p, IF detach_not_last(clients - 1) THEN "idle" ELSE "det_unreg")
    /\ UNCHANGED <<emitVars, ncpus, traces, open, hook, size, ring, bdev, result, idx,
                   arg, held, clients0>>

\* mutex_lock, state->clients-- and the test of the new count
detach_lock(p) ==
    /\ pc[p] = "det_lock"
    /\ mutex = 0
    /\ mutex' = p
    /\ clients' = clients - 1
    /\ Goto(p, IF detach_not_last(clients - 1) THEN "det_exit" ELSE "det_unreg")
    /\ UNCHANGED <<emitVars, ncpus, traces, open, hook, size, ring, bdev, result, idx,
                   arg, held, clients0>>

\* mutant: the probe is left registered
detach_unregister_mut(p) ==
    /\ pc[p] = "det_unreg"
    /\ Goto(p, "det_rmall")
    /\ UNCHANGED <<emitVars, ncpus, clients, mutex, traces, open, hook, size, ring,
                   bdev, result, idx, arg, held, clients0>>

\* unregister_trace_block_bio_queue
detach_unregister(p) ==
    /\ pc[p] = "det_unreg"
    /\ hook' = FALSE
    /\ Goto(p, "det_rmall")
    /\ UNCHANGED <<emitVars, ncpus, clients, mutex, traces, open, size, ring, bdev,
                   result, idx, arg, held, clients0>>

\* iotrace_bdev_remove_all
detach_remove_all(p) ==
    /\ pc[p] = "det_rmall"
    /\ bdev' = FALSE
    /\ idx' = [idx EXCEPT ![p] = 1]
    /\ Goto(p, "det_deinit")
    /\ UNCHANGED <<emitVars, ncpus, clients, mutex, traces, open, hook, size, ring,
                   result, arg, held, clients0>>

\* deinit_tracers: the close loop
detach_deinit(p) ==
    /\ pc[p] = "det_deinit"
    /\ close_step(p, "det_deinit_free")
    /\ UNCHANGED <<emitVars, ncpus, clients, mutex, traces, hook, size, ring, bdev,
                   result, arg, held, clients0>>

\* deinit_tracers: free_percpu
detach_deinit_free(p) ==
    /\ pc[p] = "det_deinit_free"
    /\ traces' = "freed"
    /\ Goto(p, "det_exit")
    /\ UNCHANGED <<emitVars, ncpus, clients, mutex, open, hook, size, ring, bdev,
                   result, idx, arg, held, clients0>>

\* mutex_unlock and return (both return paths)
detach_exit(p) ==
    /\ pc[p] = "det_exit"
    /\ mutex' = 0
    /\ Goto(p, "idle")
    /\ UNCHANGED <<emitVars, ncpus, clients, traces, open, hook, size, ring, bdev,
                   result, idx, arg, held, clients0>>

(***************************************************************************)
(* iotrace_init_buffers                                                    *)
(***************************************************************************)
init_buffers_call(p, size_mb) ==
    /\ pc[p] = "idle"
    /\ arg' = [arg EXCEPT ![p] = size_mb]
    /\ result' = [result EXCEPT ![p] = OK]
    /\ Goto(p, "ib_lock")
    /\ UNCHANGED <<emitVars, ncpus, lifeVars, idx, held, clients0>>

\* mutex_lock and the test of state->clients
init_buffers_lock(p) ==
    /\ pc[p] = "ib_lock"
    /\ mutex = 0
    /\ mutex' = p
    /\ IF init_buffers_busy(clients)
       THEN /\ result' = [result EXCEPT ![p] = EINVAL]
            /\ Goto(p, "ib_exit")
       ELSE /\ Goto(p, "ib_set")
            /\ UNCHANGED result
    /\ UNCHANGED <<emitVars, ncpus, clients, traces, open, hook, size, ring, bdev, idx,
                   arg, held, clients0>>

\* result = iotrace_set_buffer_size(iotrace, size); if (result) goto exit
init_buffers_set(p) ==
    /\ pc[p] = "ib_set"
    /\ LET r == iotrace_set_buffer_size(size, arg[p], ncpus) IN
       /\ size' = r.size
       /\ result' = [result EXCEPT ![p] = r.status]
       /\ IF r.status # OK
          THEN /\ Goto(p, "ib_exit")
               /\ UNCHANGED idx
          ELSE /\ Goto(p, "ib_alloc")
               /\ idx' = [idx EXCEPT ![p] = 1]
    /\ UNCHANGED <<emitVars, ncpus, clients, mutex, traces, open, hook, ring, bdev, arg,
                   held, clients0>>

\* iotrace_procfs_trace_file_alloc(file, bytes): on success the file's ring
\* has `bytes` bytes, on failure the file is left without a ring
iotrace_procfs_trace_file_alloc(c, bytes, ok) ==
    [ring EXCEPT ![c] = IF ok THEN bytes ELSE 0]

\* one iteration of the allocation loop
init_buffers_alloc(p) ==
    /\ pc[p] = "ib_alloc"
    /\ \/ /\ ring' = iotrace_procfs_trace_file_alloc(idx[p], size, TRUE)
          /\ UNCHANGED result
          /\ IF idx[p] = ncpus
             THEN /\ idx' = [idx EXCEPT ![p] = 0]
                  /\ Goto(p, "ib_exit")
             ELSE /\ idx' = [idx EXCEPT ![p] = idx[p] + 1]
                  /\ UNCHANGED pc
       \/ /\ ring' = iotrace_procfs_trace_file_alloc(idx[p], size, FALSE)
          /\ result' = [result EXCEPT ![p] = ALLOC_ERR]
          /\ idx' = [idx EXCEPT ![p] = 0]
          /\ Goto(p, "ib_exit")
    /\ buf' = [buf EXCEPT ![idx[p]] = << >>]
    /\ UNCHANGED <<sid, woken, bpc, bsid, bbio, dpc, dcpu, dname, dtrace, dsid, dres,
                   ncpus, clients, mutex, traces, open, hook, size, bdev, arg,
                   held, clients0>>

\* exit: mutex_unlock and return result
init_buffers_exit(p) ==
    /\ pc[p] = "ib_exit"
    /\ mutex' = 0
    /\ result' = [result EXCEPT ![p] = OK]
    /\ arg' = [arg EXCEPT ![p] = 0]
    /\ Goto(p, "idle")
    /\ UNCHANGED <<emitVars, ncpus, clients, traces, open, hook, size, ring, bdev, idx,
                   held, clients0>>

(***************************************************************************)
(* The per-CPU trace rings (octf_trace_push) and the wait queues.          *)
(***************************************************************************)
\* the handle in slot c of state->traces is a live, open trace
HandleOpen(c) == traces = "alloc" /\ open[c]

\* octf_trace_push on an open handle: the event is appended when the ring has
\* room, otherwise it is dropped and a non-zero status is returned
octf_trace_push(c, ev) ==
    IF Len(buf[c]) < RingCap
    THEN [buf |-> [buf EXCEPT ![c] = Append(buf[c], ev)], status |-> OK]
    ELSE [buf |-> buf, status |-> PUSH_FULL]

\* iotrace_notify_of_new_events: wake_up on the poll queue of the CPU
iotrace_notify_of_new_events(c) == [woken EXCEPT ![c] = TRUE]

\* calls that have not drawn their sequence id yet (bounds state->sid)
Undrawn ==
    Cardinality({c \in Cpus : bpc[c] = "bio_sid"})
    + Cardinality({d \in DescCallers : dpc[d] = "desc_sid"})

\* atomic64_inc_return(&state->sid)
atomic64_inc_return(v) == v + 1

(***************************************************************************)
(* bio_queue_event and iotrace_trace_bio, running on CPU c                 *)
(***************************************************************************)
\* the bits of bi_rw the file looks at (internal/bio.h)
BioFlags == {"REQ_WRITE", "REQ_DISCARD", "REQ_FLUSH", "REQ_FUA"}

\* IOTRACE_BIO_IS_WRITE: bio_data_dir(bio) == WRITE
IOTRACE_BIO_IS_WRITE(rw) == "REQ_WRITE" \in rw
\* IOTRACE_BIO_IS_DISCARD
IOTRACE_BIO_IS_DISCARD(rw) == "REQ_DISCARD" \in rw
\* IOTRACE_BIO_IS_FLUSH
IOTRACE_BIO_IS_FLUSH(rw) == "REQ_FLUSH" \in rw
\* IOTRACE_BIO_IS_FUA
IOTRACE_BIO_IS_FUA(rw) == "REQ_FUA" \in rw

\* mutant: the direction is tested before the discard bit
event_operation_mut(rw) ==
    IF IOTRACE_BIO_IS_WRITE(rw) THEN "wr"
    ELSE IF IOTRACE_BIO_IS_DISCARD(rw) THEN "discard"
    ELSE "rd"

\* ev.operation of iotrace_trace_bio
event_operation(rw) ==
    IF IOTRACE_BIO_IS_DISCARD(rw) THEN "discard"
    ELSE IF IOTRACE_BIO_IS_WRITE(rw) THEN "wr"
    ELSE "rd"

\* ev.flags of iotrace_trace_bio, starting from the zeroed event
event_flags(rw) ==
    (IF IOTRACE_BIO_IS_FLUSH(rw) THEN {"flush"} ELSE {})
    \cup (IF IOTRACE_BIO_IS_FUA(rw) THEN {"fua"} ELSE {})

\* the I/O event iotrace_trace_bio builds
io_event(id, rw) ==
    [type |-> "io", sid |-> id, operation |-> event_operation(rw),
     flags |-> event_flags(rw)]

\* the tracepoint fires while the probe is registered: get_cpu() and
\* `if (iotrace_bdev_is_added(...))`; for a queue that is not traced the
\* callback returns at once and changes nothing
bio_queue_event(c, rw) ==
    /\ hook
    /\ bdev
    /\ bpc[c] = "idle"
    /\ sid + Undrawn < MaxSid
    /\ bpc' = [bpc EXCEPT ![c] = "bio_sid"]
    /\ bbio' = [bbio EXCEPT ![c] = rw]
    /\ UNCHANGED <<ncpus, lifeVars, callVars, sid, buf, woken, bsid, dpc, dcpu,
                   dname, dtrace, dsid, dres>>

\* iotrace_trace_bio: sid = atomic64_inc_return(&state->sid)
trace_bio_sid(c) ==
    /\ bpc[c] = "bio_sid"
    /\ sid' = atomic64_inc_return(sid)
    /\ bsid' = [bsid EXCEPT ![c] = sid']
    /\ bpc' = [bpc EXCEPT ![c] = "bio_push"]
    /\ UNCHANGED <<ncpus, lifeVars, callVars, buf, woken, bbio, dpc, dcpu,
                   dname, dtrace, dsid, dres>>

\* iotrace_trace_bio: the event is filled in and
\* octf_trace_push(*per_cpu_ptr(state->traces, cpu), ...) is called; the
\* handle is read here, and a push through a slot that is not an open trace
\* changes no ring.  The status of the push is not looked at.
trace_bio_push(c) ==
    /\ bpc[c] = "bio_push"
    /\ buf' = IF HandleOpen(c)
              THEN octf_trace_push(c, io_event(bsid[c], bbio[c])).buf
              ELSE buf
    /\ bpc' = [bpc EXCEPT ![c] = "bio_notify"]
    /\ UNCHANGED <<ncpus, lifeVars, callVars, sid, woken, bsid, bbio, dpc,
                   dcpu, dname, dtrace, dsid, dres>>

\* mutant: the waiter is woken only when the event went into the ring
trace_bio_notify_mut(c) ==
    /\ bpc[c] = "bio_notify"
    /\ woken' = IF \E i \in 1..Len(buf[c]) : buf[c][i].sid = bsid[c]
                THEN iotrace_notify_of_new_events(c)
                ELSE woken
    /\ bsid' = [bsid EXCEPT ![c] = 0]
    /\ bbio' = [bbio EXCEPT ![c] = {}]
    /\ bpc' = [bpc EXCEPT ![c] = "idle"]
    /\ UNCHANGED <<ncpus, lifeVars, callVars, sid, buf, dpc, dcpu, dname,
                   dtrace, dsid, dres>>

\* iotrace_trace_bio: iotrace_notify_of_new_events; then put_cpu() and return
trace_bio_notify(c) ==
    /\ bpc[c] = "bio_notify"
    /\ woken' = iotrace_notify_of_new_events(c)
    /\ bsid' = [bsid EXCEPT ![c] = 0]
    /\ bbio' = [bbio EXCEPT ![c] = {}]
    /\ bpc' = [bpc EXCEPT ![c] = "idle"]
    /\ UNCHANGED <<ncpus, lifeVars, callVars, sid, buf, dpc, dcpu, dname,
                   dtrace, dsid, dres>>

(***************************************************************************)
(* iotrace_trace_desc, called by context d                                 *)
(***************************************************************************)
\* strnlen(s, maxlen) of a string of length n
strnlen(n, maxlen) == IF n < maxlen THEN n ELSE maxlen

\* mutant: `>` instead of `>=`
desc_name_too_long_mut(n) == strnlen(n, DevNameSize) > DevNameSize

\* `strnlen(dev_name, dev_name_size) >= dev_name_size`
desc_name_too_long(n) == strnlen(n, DevNameSize) >= DevNameSize

\* the value of `*per_cpu_ptr(state->traces, cpu)`: with no live table the
\* read yields whatever the memory holds
per_cpu_handle(c) ==
    IF traces = "alloc"
    THEN {IF open[c] THEN "open" ELSE "null"}
    ELSE {"null", "junk"}

\* the call, and trace = *per_cpu_ptr(state->traces, cpu)
trace_desc_call(d, c, n) ==
    /\ dpc[d] = "idle"
    /\ sid + Undrawn < MaxSid
    /\ dpc' = [dpc EXCEPT ![d] = "desc_sid"]
    /\ dcpu' = [dcpu EXCEPT ![d] = c]
    /\ dname' = [dname EXCEPT ![d] = n]
    /\ dres' = [dres EXCEPT ![d] = OK]
    /\ \E h \in per_cpu_handle(c) : dtrace' = [dtrace EXCEPT ![d] = h]
    /\ UNCHANGED <<ncpus, lifeVars, callVars, sid, buf, woken, bpc, bsid, bbio, dsid>>

\* mutant: the descriptor path reads the counter without incrementing it
trace_desc_sid_mut(d) ==
    /\ dpc[d] = "desc_sid"
    /\ dsid' = [dsid EXCEPT ![d] = sid]
    /\ dpc' = [dpc EXCEPT ![d] = "desc_check"]
    /\ UNCHANGED <<ncpus, lifeVars, callVars, sid, buf, woken, bpc, bsid, bbio, dcpu,
                   dname, dtrace, dres>>

\* sid = atomic64_inc_return(&state->sid)
trace_desc_sid(d) ==
    /\ dpc[d] = "desc_sid"
    /\ sid' = atomic64_inc_return(sid)
    /\ dsid' = [dsid EXCEPT ![d] = sid']
    /\ dpc' = [dpc EXCEPT ![d] = "desc_check"]
    /\ UNCHANGED <<ncpus, lifeVars, callVars, buf, woken, bpc, bsid, bbio, dcpu,
                   dname, dtrace, dres>>

\* the name check: return -ENOSPC, or strcpy and go on
trace_desc_check(d) ==
    /\ dpc[d] = "desc_check"
    /\ IF desc_name_too_long(dname[d])
       THEN /\ dres' = [dres EXCEPT ![d] = ENOSPC]
            /\ dpc' = [dpc EXCEPT ![d] = "desc_ret"]
       ELSE /\ dpc' = [dpc EXCEPT ![d] = "desc_push"]
            /\ UNCHANGED dres
    /\ UNCHANGED <<ncpus, lifeVars, callVars, sid, buf, woken, bpc, bsid, bbio,
                   dcpu, dname, dtrace, dsid>>

\* mutant: the status of a push refused by a full ring is turned into success
trace_desc_push_mut(d) ==
    /\ dpc[d] = "desc_push"
    /\ LET c == dcpu[d]
           r == octf_trace_push(c, [type |-> "desc", sid |-> dsid[d]]) IN
       IF dtrace[d] = "open" /\ HandleOpen(c)
       THEN /\ buf' = r.buf
            /\ dres' = [dres EXCEPT ![d] = IF r.status = PUSH_FULL THEN OK
                                           ELSE r.status]
       ELSE /\ UNCHANGED buf
            /\ \E st \in {OK, EINVAL} :
                  /\ dtrace[d] = "null" => st = EINVAL
                  /\ dres' = [dres EXCEPT ![d] = st]
    /\ dpc' = [dpc EXCEPT ![d] = "desc_notify"]
    /\ UNCHANGED <<ncpus, lifeVars, callVars, sid, woken, bpc, bsid, bbio, dcpu,
                   dname, dtrace, dsid>>

\* result = octf_trace_push(trace, &desc, sizeof(desc)): through the handle
\* read on entry; a NULL handle is rejected, a handle that is no longer (or
\* never was) an open trace changes no ring and returns either status
trace_desc_push(d) ==
    /\ dpc[d] = "desc_push"
    /\ LET c == dcpu[d]
           r == octf_trace_push(c, [type |-> "desc", sid |-> dsid[d]]) IN
       IF dtrace[d] = "open" /\ HandleOpen(c)
       THEN /\ buf' = r.buf
            /\ dres' = [dres EXCEPT ![d] = r.status]
       ELSE /\ UNCHANGED buf
            /\ \E st \in {OK, EINVAL} :
                  /\ dtrace[d] = "null" => st = EINVAL
                  /\ dres' = [dres EXCEPT ![d] = st]
    /\ dpc' = [dpc EXCEPT ![d] = "desc_notify"]
    /\ UNCHANGED <<ncpus, lifeVars, callVars, sid, woken, bpc, bsid, bbio, dcpu,
                   dname, dtrace, dsid>>

\* iotrace_notify_of_new_events(iotrace, cpu)
trace_desc_notify(d) ==
    /\ dpc[d] = "desc_notify"
    /\ woken' = iotrace_notify_of_new_events(dcpu[d])
    /\ dpc' = [dpc EXCEPT ![d] = "desc_ret"]
    /\ UNCHANGED <<ncpus, lifeVars, callVars, sid, buf, bpc, bsid, bbio, dcpu,
                   dname, dtrace, dsid, dres>>

\* return result
trace_desc_return(d) ==
    /\ dpc[d] = "desc_ret"
    /\ dpc' = [dpc EXCEPT ![d] = "idle"]
    /\ dcpu' = [dcpu EXCEPT ![d] = 1]
    /\ dname' = [dname EXCEPT ![d] = 0]
    /\ dtrace' = [dtrace EXCEPT ![d] = "null"]
    /\ dsid' = [dsid EXCEPT ![d] = 0]
    /\ dres' = [dres EXCEPT ![d] = OK]
    /\ UNCHANGED <<ncpus, lifeVars, callVars, sid, buf, woken, bpc, bsid, bbio>>

(***************************************************************************)
(* Collaborators outside this file.                                        *)
(***************************************************************************)
\* the reader of the per-CPU file, woken on its poll queue, polls again
poll_wait(c) ==
    /\ woken[c]
    /\ woken' = [woken EXCEPT ![c] = FALSE]
    /\ UNCHANGED <<ncpus, lifeVars, callVars, sid, buf, bpc, bsid, bbio, dpc, dcpu,
                   dname, dtrace, dsid, dres>>

\* the device registry puts a device under trace
iotrace_bdev_add ==
    /\ ~bdev
    /\ bdev' = TRUE
    /\ UNCHANGED <<ncpus, clients, mutex, traces, open, hook, size, ring,
                   callVars, emitVars>>

(***************************************************************************)
(* Specifications.                                                         *)
(***************************************************************************)
\* the shared state after iotrace_trace_init on a machine with n online CPUs:
\* no client, no ring, no table, the hook unregistered
Idle(n) ==
    /\ ncpus = n
    /\ clients = 0
    /\ mutex = 0
    /\ traces = "null"
    /\ open = [c \in 1..n |-> FALSE]
    /\ hook = FALSE
    /\ size = 0
    /\ ring = [c \in 1..n |-> 0]
    /\ bdev = FALSE

\* the shared state once iotrace_init_buffers(mb) and iotrace_attach_client
\* have returned 0 and a device was put under trace
Tracing(n, mb) ==
    /\ ncpus = n
    /\ clients = 1
    /\ mutex = 0
    /\ traces = "alloc"
    /\ open = [c \in 1..n |-> TRUE]
    /\ hook = TRUE
    /\ size = iotrace_set_buffer_size(0, mb, n).size
    /\ ring = [c \in 1..n |-> iotrace_set_buffer_size(0, mb, n).size]
    /\ bdev = TRUE

\* k callers of the life-cycle functions and m callers of iotrace_trace_desc,
\* none of them inside a call; no sequence id drawn, the rings empty
Contexts(n, k, m) ==
    /\ result = [p \in 1..k |-> OK]
    /\ idx = [p \in 1..k |-> 0]
    /\ held = [p \in 1..k |-> 0]
    /\ clients0 = [p \in 1..k |-> 0]
    /\ sid = 0
    /\ buf = [c \in 1..n |-> << >>]
    /\ woken = [c \in 1..n |-> FALSE]
    /\ bpc = [c \in 1..n |-> "idle"]
    /\ bsid = [c \in 1..n |-> 0]
    /\ bbio = [c \in 1..n |-> {}]
    /\ dpc = [d \in 1..m |-> "idle"]
    /\ dcpu = [d \in 1..m |-> 1]
    /\ dname = [d \in 1..m |-> 0]
    /\ dtrace = [d \in 1..m |-> "null"]
    /\ dsid = [d \in 1..m |-> 0]
    /\ dres = [d \in 1..m |-> OK]

Machine(n, k, m) == Idle(n) /\ Contexts(n, k, m)

\* every caller outside the life-cycle functions
InitWith(n, k, m) ==
    /\ Machine(n, k, m)
    /\ pc = [p \in 1..k |-> "idle"]
    /\ arg = [p \in 1..k |-> 0]

\* sizes requested in the life-cycle specification
LifeSizes == {0, 1, iotrace_procfs_max_buffer_size_mb + 1}

\* name lengths passed to iotrace_trace_desc
NameLens == (DevNameSize - 1)..(DevNameSize + 1)

\* sizes requested next to the event producers
TraceSizes == {1}

Init == InitWith(NumCpus, NumTracers, NumDesc)

LifeSteps(p) ==
    \/ attach_call(p)
    \/ attach_lock(p)
    \/ init_tracers_alloc(p)
    \/ init_tracers_open(p)
    \/ init_tracers_undo(p)
    \/ init_tracers_undo_free(p)
    \/ attach_register(p)
    \/ attach_deinit(p)
    \/ attach_deinit_free(p)
    \/ attach_inc(p)
    \/ attach_exit(p)
    \/ detach_call(p)
    \/ detach_lock(p)
    \/ detach_unregister(p)
    \/ detach_remove_all(p)
    \/ detach_deinit(p)
    \/ detach_deinit_free(p)
    \/ detach_exit(p)
    \/ init_buffers_lock(p)
    \/ init_buffers_set(p)
    \/ init_buffers_alloc(p)
    \/ init_buffers_exit(p)

\* every bi_rw the callback can see
AllBios == SUBSET BioFlags

\* the bios submitted next to the life cycle and the descriptor pushes
TraceBios == {{"REQ_WRITE", "REQ_FLUSH"}}

BioSteps(c) ==
    \/ trace_bio_sid(c)
    \/ trace_bio_push(c)
    \/ trace_bio_notify(c)

BioNext ==
    \E c \in Cpus :
        \/ \E rw \in TraceBios : bio_queue_event(c, rw)
        \/ BioSteps(c)

DescNext ==
    \E d \in DescCallers :
        \/ \E c \in Cpus, n \in NameLens : trace_desc_call(d, c, n)
        \/ trace_desc_sid(d)
        \/ trace_desc_check(d)
        \/ trace_desc_push(d)
        \/ trace_desc_notify(d)
        \/ trace_desc_return(d)

EnvNext ==
    \/ iotrace_bdev_add
    \/ \E c \in Cpus : poll_wait(c)

\* the whole system: life-cycle callers and event producers
Next ==
    \/ \E p \in Callers : LifeSteps(p)
    \/ \E p \in Callers, mb \in TraceSizes : init_buffers_call(p, mb)
    \/ BioNext
    \/ DescNext
    \/ EnvNext

Spec == Init /\ [][Next]_vars

\* the life cycle alone, with more callers and every kind of size request
LifeInit == InitWith(NumCpus, NumCallers, 0)

LifeNext ==
    \/ \E p \in Callers : LifeSteps(p)
    \/ \E p \in Callers, mb \in LifeSizes : init_buffers_call(p, mb)

SpecLife == LifeInit /\ [][LifeNext]_vars

\* the life cycle next to a device registry that puts devices under trace
LifeDevNext == LifeNext \/ iotrace_bdev_add

SpecLifeDev == LifeInit /\ [][LifeDevNext]_vars

\* mutex_lock(&state->client_mutex) of the three entry points
Locking(p) ==
    \/ attach_lock(p)
    \/ detach_lock(p)
    \/ init_buffers_lock(p)

\* the steps a call takes while it holds the mutex
Running(p) ==
    \/ init_tracers_alloc(p)
    \/ init_tracers_open(p)
    \/ init_tracers_undo(p)
    \/ init_tracers_undo_free(p)
    \/ attach_register(p)
    \/ attach_deinit(p)
    \/ attach_deinit_free(p)
    \/ attach_inc(p)
    \/ attach_exit(p)
    \/ detach_unregister(p)
    \/ detach_remove_all(p)
    \/ detach_deinit(p)
    \/ detach_deinit_free(p)
    \/ detach_exit(p)
    \/ init_buffers_set(p)
    \/ init_buffers_alloc(p)
    \/ init_buffers_exit(p)

\* the life cycle under a fair scheduler: a call that can run does run, and a
\* call sleeping in mutex_lock gets the mutex if it is free again and again;
\* when consumers make their calls is left open
SpecLifeFair ==
    /\ LifeInit
    /\ [][LifeNext]_vars
    /\ \A p \in 1..NumCallers : WF_vars(Running(p)) /\ SF_vars(Locking(p))

\* buffer sizing alone: one call of iotrace_init_buffers, for any number of
\* online CPUs and any request
SizerInit ==
    \E n \in 1..MaxSizerCpus, mb \in 0..MaxSizerMb :
        /\ Machine(n, 1, 0)
        /\ pc = [p \in 1..1 |-> "ib_lock"]
        /\ arg = [p \in 1..1 |-> mb]

SizerNext ==
    \/ init_buffers_lock(1)

    \/ init_buffers_set(1)
    \/ init_buffers_alloc(1)
    \/ init_buffers_exit(1)

SpecSizer == SizerInit /\ [][SizerNext]_vars

\* the event producers alone, while tracing is active and the life cycle rests
EmitInit ==
    /\ Tracing(NumCpus, 1)
    /\ Contexts(NumCpus, 0, NumDesc)
    /\ pc = << >>
    /\ arg = << >>

EmitNext ==
    \/ BioNext
    \/ DescNext
    \/ \E c \in Cpus : poll_wait(c)

SpecEmit == EmitInit /\ [][EmitNext]_vars

\* the tracepoint callback alone, for every bio
BioOnlyNext ==
    \E c \in Cpus :
        \/ \E rw \in AllBios : bio_queue_event(c, rw)
        \/ BioSteps(c)

SpecBio == EmitInit /\ [][BioOnlyNext]_vars

(***************************************************************************)
(* Properties.                                                             *)
(***************************************************************************)
AttachPcs == {"att_lock", "att_alloc", "att_open", "att_undo", "att_undo_free",
              "att_reg", "att_deinit", "att_deinit_free", "att_inc", "att_exit"}
DetachPcs == {"det_lock", "det_unreg", "det_rmall", "det_deinit",
              "det_deinit_free", "det_exit"}
InitBuffersPcs == {"ib_lock", "ib_set", "ib_alloc", "ib_exit"}

\* no attach or detach call is in progress
Quiescent == \A p \in Callers : pc[p] \notin (AttachPcs \cup DetachPcs)

\* no attach or detach call holds client_mutex
NoLifeCycleHolder == mutex = 0 \/ pc[mutex] \in InitBuffersPcs

RECURSIVE SumHeld(_)
SumHeld(S) ==
    IF S = {} THEN 0
    ELSE LET p == CHOOSE q \in S : TRUE IN held[p] + SumHeld(S \ {p})

\* successful attaches minus detaches, over all callers
Attached == SumHeld(Callers)

AllOpen == \A c \in Cpus : open[c]
NoneOpen == \A c \in Cpus : ~open[c]

\* C1: whenever no attach/detach call is in progress, the hook is registered
\* exactly when successful attaches minus detaches is positive, and
\* state->clients is that difference (N attaches need N detaches).
C1_HookIffAttached ==
    Quiescent => /\ hook <=> (Attached > 0)
                 /\ clients = Attached

\* two attaches are outstanding and the hook is registered
C1_Witness == Quiescent /\ Attached = 2 /\ hook

\* C2: a registration is attempted only by an attach that found clients = 0
\* and with the hook unregistered; the hook is unregistered only by a detach
\* that brought clients to 0 and with the hook registered; so register and
\* unregister alternate.
C2_RegisterAlternates ==
    \A p \in Callers :
        /\ pc[p] = "att_reg" => (~hook /\ clients = 0 /\ clients0[p] = 0)
        /\ pc[p] = "det_unreg" => (hook /\ clients = 0)

\* the last detach is about to unregister while another caller waits to attach
C2_Witness ==
    \E p, q \in Callers : pc[p] = "det_unreg" /\ hook /\ pc[q] = "att_lock"

\* C3: whenever no attach/detach call holds the mutex, clients >= 0 and the
\* handle table is allocated with every online CPU's handle open exactly when
\* clients > 0; with clients = 0 no handle is open and the table is released.
C3_TracersIffClients ==
    NoLifeCycleHolder =>
        /\ clients >= 0
        /\ (traces = "alloc" /\ AllOpen) <=> (clients > 0)
        /\ clients = 0 => (traces # "alloc" /\ NoneOpen)

\* the last client has detached: the table was released and the mutex is free
C3_Witness == mutex = 0 /\ clients = 0 /\ traces = "freed" /\ Attached = 0

\* C4: an attach that returns a non-zero status leaves clients as it found
\* it; after a failed registration the tracers opened by the call are torn
\* down before it returns, the hook is not registered and the status returned
\* is the registration error.
C4_FailedAttach ==
    \A p \in Callers :
        /\ (pc[p] = "att_exit" /\ result[p] # OK) => clients = clients0[p]
        /\ pc[p] \in {"att_deinit", "att_deinit_free"} =>
               (result[p] = REG_ERR /\ ~hook /\ clients = clients0[p])
        /\ (pc[p] = "att_exit" /\ result[p] = REG_ERR) =>
               (~hook /\ NoneOpen /\ traces = "freed")

\* an attach returns the registration error
C4_Witness == \E p \in Callers : pc[p] = "att_exit" /\ result[p] = REG_ERR

\* C5: an attach from Idle with a CPU lacking its ring, or with a failing
\* open, fails and leaves Idle behind: every handle closed, the table
\* released, clients = 0, hook unregistered.  It never gets as far as the
\* registration with a ring missing, it fails with -EINVAL only when a ring
\* is missing, and an attach that returns 0 leaves clients one higher with
\* the tracers open and the hook registered.
C5_ActivationRollback ==
    \A p \in Callers :
        /\ (pc[p] = "att_exit" /\ result[p] \in {EINVAL, OPEN_ERR, ENOMEM}) =>
               (clients = 0 /\ ~hook /\ NoneOpen /\ traces # "alloc")
        /\ (pc[p] = "att_exit" /\ result[p] = EINVAL) => \E c \in Cpus : ring[c] = 0
        /\ pc[p] \in {"att_reg", "att_inc", "att_exit"} /\ result[p] = OK =>
               \A c \in Cpus : ring[c] # 0
        /\ (pc[p] = "att_exit" /\ result[p] = OK) =>
               (clients = clients0[p] + 1 /\ hook /\ AllOpen /\ traces = "alloc")

\* CPU 1 was opened, CPU 2 has no ring: the attach fails and has rolled back
C5_Witness ==
    \E p \in Callers :
        /\ pc[p] = "att_exit" /\ result[p] = EINVAL
        /\ ring[1] # 0 /\ traces = "freed" /\ NoneOpen

\* C6: while clients > 0 no step changes iotrace->size or any ring, and a
\* call of iotrace_init_buffers that finds clients > 0 returns -EINVAL
\* without reaching the size computation or the allocation loop.
C6_SizeFixedWhileActive ==
    [][/\ clients > 0 => (size' = size /\ ring' = ring)
       /\ \A p \in Callers :
            /\ pc'[p] \in {"ib_set", "ib_alloc"} => clients' = 0
            /\ (pc[p] = "ib_lock" /\ pc'[p] # "ib_lock" /\ clients > 0) =>
                   (pc'[p] = "ib_exit" /\ result'[p] = EINVAL)]_vars

\* a size request was refused because a client is attached
C6_Witness ==
    \E p \in Callers : pc[p] = "ib_exit" /\ result[p] = EINVAL /\ clients > 0

\* a request the sizing rules refuse: zero, above the ceiling, or a zero share
BadRequest(mb, cpus) ==
    \/ mb = 0
    \/ mb > iotrace_procfs_max_buffer_size_mb
    \/ (mb * 1048576) \div cpus = 0

\* C7: a request of 0 MiB, of more than the ceiling, or with a per-CPU share
\* of 0 fails with -EINVAL, and the call allocates no ring (it never enters
\* the allocation loop and stores no size).
C7_BadRequestRejected ==
    \A p \in Callers :
        BadRequest(arg[p], ncpus) =>
            /\ pc[p] # "ib_alloc"
            /\ pc[p] = "ib_exit" =>
                   (result[p] = EINVAL /\ size = 0 /\ \A c \in Cpus : ring[c] = 0)

\* a request above the ceiling has been refused
C7_Witness ==
    \E p \in Callers :
        /\ pc[p] = "ib_exit" /\ result[p] = EINVAL
        /\ arg[p] = iotrace_procfs_max_buffer_size_mb + 1

\* C8: once iotrace_set_buffer_size(X) has succeeded on P online CPUs,
\* iotrace_get_buffer_size returns floor(floor(X * 2^20 / P) * P / 2^20).
C8_GetAfterSet ==
    \A p \in Callers :
        (pc[p] \in {"ib_alloc", "ib_exit"} /\ result[p] # EINVAL) =>
            iotrace_get_buffer_size
                = (((arg[p] * 1048576) \div ncpus) * ncpus) \div 1048576

\* X = 100 on P = 7 reads back as 99 MiB
C8_Witness ==
    \E p \in Callers :
        /\ pc[p] = "ib_exit" /\ result[p] = OK
        /\ arg[p] = 100 /\ ncpus = 7 /\ iotrace_get_buffer_size = 99

\* the sequence ids held by calls in flight, as <<caller, id>> pairs
DrawnIds ==
    {<<"bio", c, bsid[c]>> : c \in {x \in Cpus : bpc[x] \in {"bio_push", "bio_notify"}}}
    \cup {<<"desc", d, dsid[d]>> :
             d \in {x \in DescCallers :
                      dpc[x] \in {"desc_check", "desc_push", "desc_notify", "desc_ret"}}}

\* C9: the ids held by concurrent emit calls (I/O and descriptor events) are
\* pairwise distinct, and every draw returns an id greater than every id
\* drawn before it (those still held by a call and those of buffered events).
C9_SequenceIds ==
    /\ [](\A a, b \in DrawnIds : a # b => a[3] # b[3])
    /\ [][sid' # sid =>
            /\ sid' > sid
            /\ \A a \in DrawnIds : sid' > a[3]
            /\ \A c \in Cpus : \A i \in 1..Len(buf[c]) : sid' > buf[c][i].sid
            /\ \E a \in DrawnIds' : a \notin DrawnIds /\ a[3] = sid']_vars

\* callbacks on two processors hold their ids at the same time
C9_Witness ==
    \E c1, c2 \in Cpus : c1 # c2 /\ bpc[c1] = "bio_push" /\ bpc[c2] = "bio_push"

\* C10: iotrace_trace_desc with a name of DevNameSize characters or more
\* returns -ENOSPC from the name check without pushing to any ring or waking
\* any waiter; with DevNameSize - 1 characters the check passes and the call
\* goes on to the push.
C10_NameTooLong ==
    /\ [](\A d \in DescCallers :
            /\ dpc[d] \in {"desc_push", "desc_notify"} => dname[d] < DevNameSize
            /\ (dpc[d] = "desc_ret" /\ dname[d] >= DevNameSize) => dres[d] = ENOSPC)
    /\ [][\A d \in DescCallers :
            (dpc[d] = "desc_check" /\ dpc'[d] # "desc_check") =>
                IF dname[d] >= DevNameSize
                THEN /\ dpc'[d] = "desc_ret"
                     /\ buf' = buf
                     /\ woken' = woken
                ELSE dpc'[d] = "desc_push"]_vars

\* a descriptor with the longest name that fits is in a ring, and a call with
\* a name of exactly DevNameSize characters returns -ENOSPC
C10_Witness ==
    \E d \in DescCallers :
        /\ dpc[d] = "desc_ret" /\ dname[d] = DevNameSize /\ dres[d] = ENOSPC
        /\ \E c \in Cpus : Len(buf[c]) > 0 /\ buf[c][1].type = "desc"

\* ring c holds an event with sequence id `id`
InRing(c, id) == \E i \in 1..Len(buf[c]) : buf[c][i].sid = id

\* C11: every sequence id drawn belongs to an event that was pushed into a
\* ring or dropped because its ring was full: a call that has passed its push
\* step, or is returning, holds an id that is in its ring or was refused by a
\* full ring.
C11_IdPushedOrDropped ==
    /\ \A c \in Cpus :
          bpc[c] = "bio_notify" => InRing(c, bsid[c]) \/ Len(buf[c]) = RingCap
    /\ \A d \in DescCallers :
          dpc[d] \in {"desc_notify", "desc_ret"} =>
              \/ dres[d] = OK /\ InRing(dcpu[d], dsid[d])
              \/ dres[d] = PUSH_FULL

\* C12: when iotrace_init_buffers, called on a machine without ring storage,
\* fails on an allocation, no CPU is left holding storage from the call.
C12_AllocRollback ==
    \A p \in Callers :
        (pc[p] = "ib_exit" /\ result[p] = ALLOC_ERR) =>
            \A c \in Cpus : ring[c] = 0

\* the statements at which a call waits for client_mutex
LockPcs == {"att_lock", "det_lock", "ib_lock"}

\* C13: iotrace_attach_client, iotrace_detach_client and iotrace_init_buffers
\* take client_mutex once, as their first step, and give it up exactly when
\* they return, on every path; under a fair scheduler every call returns and
\* a held mutex is released.
C13_MutexReleased ==
    /\ [](mutex # 0 => pc[mutex] \notin (LockPcs \cup {"idle"}))
    /\ [][/\ (mutex' # mutex /\ mutex' # 0) =>
                mutex = 0 /\ pc[mutex'] \in LockPcs
          /\ \A p \in 1..NumCallers :
                (pc[p] # "idle" /\ pc'[p] = "idle") => mutex = p /\ mutex' = 0]_vars
    /\ \A p \in 1..NumCallers : (pc[p] # "idle") ~> (pc[p] = "idle")
    /\ (mutex # 0) ~> (mutex = 0)

\* a call sleeps in mutex_lock while another call holds the mutex
C13_Witness ==
    \E p, q \in Callers : p # q /\ pc[p] \in LockPcs /\ mutex = q

\* C14: the event pushed for a bio has operation discard when the discard
\* bit is set, else write when the direction is write, else read; its flush
\* and FUA flags are set exactly when the bio carries REQ_FLUSH and REQ_FUA,
\* whatever the other bits are.
C14_Classification ==
    [][\A c \in Cpus :
          (bpc[c] = "bio_push" /\ bpc'[c] = "bio_notify"
             /\ Len(buf'[c]) > Len(buf[c])) =>
              LET ev == buf'[c][Len(buf'[c])]
                  rw == bbio[c] IN
              /\ "REQ_DISCARD" \in rw => ev.operation = "discard"
              /\ ("REQ_DISCARD" \notin rw /\ "REQ_WRITE" \in rw) =>
                     ev.operation = "wr"
              /\ ("REQ_DISCARD" \notin rw /\ "REQ_WRITE" \notin rw) =>
                     ev.operation = "rd"
              /\ ("flush" \in ev.flags) <=> ("REQ_FLUSH" \in rw)
              /\ ("fua" \in ev.flags) <=> ("REQ_FUA" \in rw)
              /\ ev.flags \subseteq {"flush", "fua"}]_vars

\* a write bio with the discard and FUA bits is in its ring as a discard with
\* the FUA flag alone
C14_Witness ==
    \E c \in Cpus :
        /\ bpc[c] = "bio_notify"
        /\ bbio[c] = {"REQ_WRITE", "REQ_DISCARD", "REQ_FUA"}
        /\ \E i \in 1..Len(buf[c]) :
              /\ buf[c][i].sid = bsid[c]
              /\ buf[c][i].operation = "discard"
              /\ buf[c][i].flags = {"fua"}

\* C15: a callback makes one push attempt, on the ring of its own CPU, and
\* then wakes the waiter of that CPU and returns, whether the event went into
\* the ring or was dropped; neither step waits for anything or repeats.
C15_OnePushOneWake ==
    /\ [](\A c \in Cpus :
            /\ bpc[c] = "bio_push" => ENABLED trace_bio_push(c)
            /\ bpc[c] = "bio_notify" => ENABLED trace_bio_notify(c))
    /\ [][\A c \in Cpus :
            /\ (bpc[c] = "bio_push" /\ bpc'[c] # "bio_push") =>
                  /\ bpc'[c] = "bio_notify"
                  /\ woken' = woken
                  /\ \A o \in Cpus \ {c} : buf'[o] = buf[o]
                  /\ IF Len(buf[c]) < RingCap
                     THEN /\ Len(buf'[c]) = Len(buf[c]) + 1
                          /\ buf'[c][Len(buf'[c])].sid = bsid[c]
                     ELSE buf'[c] = buf[c]
            /\ (bpc[c] = "bio_notify" /\ bpc'[c] # "bio_notify") =>
                  /\ bpc'[c] = "idle"
                  /\ buf' = buf
                  /\ woken'[c]
                  /\ \A o \in Cpus \ {c} : woken'[o] = woken[o]]_vars

\* the event of a callback was dropped by a full ring and the waiter of its
\* CPU, not woken before, is about to be woken
C15_Witness ==
    \E c \in Cpus :
        /\ bpc[c] = "bio_notify"
        /\ ~InRing(c, bsid[c])
        /\ Len(buf[c]) = RingCap
        /\ ~woken[c]

\* the descriptor of call d fitted the name field and was refused by the full
\* ring of its CPU
DescDropped(d) ==
    /\ dpc[d] \in {"desc_notify", "desc_ret"}
    /\ dname[d] < DevNameSize
    /\ ~InRing(dcpu[d], dsid[d])
    /\ Len(buf[dcpu[d]]) = RingCap

\* C16: iotrace_trace_desc with a name that fits does not return a failure
\* status when its descriptor is dropped by a full ring.
C16_DropNotFailure ==
    \A d \in DescCallers : DescDropped(d) => dres[d] = OK

\* C16, amended: iotrace_trace_desc with a name that fits returns the status
\* of octf_trace_push unchanged: 0 exactly when the descriptor is in the ring,
\* and the no-space status of the push when a full ring dropped it.
C16_ReturnsPushStatus ==
    \A d \in DescCallers :
        (dpc[d] \in {"desc_notify", "desc_ret"} /\ dname[d] < DevNameSize) =>
            /\ dres[d] = OK <=> InRing(dcpu[d], dsid[d])
            /\ DescDropped(d) => dres[d] = PUSH_FULL

\* a call whose descriptor was dropped is returning the status of the push
C16_Witness ==
    \E d \in DescCallers :
        DescDropped(d) /\ dpc[d] = "desc_ret" /\ dres[d] = PUSH_FULL

\* the contexts executing octf_trace_push on the ring of CPU c
Pushers(c) ==
    {<<"bio", x>> : x \in {y \in Cpus : y = c /\ bpc[y] = "bio_push"}}
    \cup {<<"desc", d>> :
             d \in {y \in DescCallers : dpc[y] = "desc_push" /\ dcpu[y] = c}}

\* C17: at most one context at a time is in octf_trace_push on the ring of a
\* given CPU, counting the tracepoint callback of that CPU and the descriptor
\* pushes addressed to it.
C17_SingleProducer ==
    \A c \in Cpus : Cardinality(Pushers(c)) <= 1

\* C18: in every state, also in the middle of a call, a registered probe
\* implies a live handle table with every per-CPU trace open: attach registers
\* only once all traces are open, and the last detach unregisters first,
\* then clears the device list, then closes the traces.
C18_HookImpliesOpen ==
    /\ [](hook => traces = "alloc" /\ AllOpen)
    /\ [][/\ (~hook /\ hook') => traces = "alloc" /\ AllOpen
          /\ (hook /\ ~hook') => traces' = "alloc" /\ AllOpen'
          /\ (bdev /\ ~bdev') => ~hook /\ traces' = "alloc" /\ AllOpen'
          /\ \A p \in 1..NumCallers :
                /\ (pc[p] # "det_rmall" /\ pc'[p] = "det_rmall") =>
                       pc[p] = "det_unreg" /\ ~hook'
                /\ (pc[p] # "det_deinit" /\ pc'[p] = "det_deinit") =>
                       pc[p] = "det_rmall" /\ ~hook /\ ~bdev' /\ AllOpen]_vars

\* the last detach has unregistered the probe; the device list is not yet
\* cleared and every trace is still open
C18_Witness ==
    \E p \in Callers :
        pc[p] = "det_rmall" /\ ~hook /\ bdev /\ AllOpen /\ clients = 0

\* C19: no event is pushed through a handle that is not an open trace of a
\* live table: a callback or a descriptor call at its push finds the handle
\* it pushes through open.
C19_PushOnlyOpen ==
    /\ \A c \in Cpus : bpc[c] = "bio_push" => HandleOpen(c)
    /\ \A d \in DescCallers :
          dpc[d] = "desc_push" => dtrace[d] = "open" /\ HandleOpen(dcpu[d])

\* C20: a call of iotrace_init_buffers that fails on a machine whose
\* configured size is 0 leaves the size at 0, whatever made it fail.
C20_FailedKeepsSize ==
    \A p \in Callers :
        (pc[p] = "ib_exit" /\ result[p] # OK) => iotrace_get_buffer_size = 0

====
